---- MODULE Spec2Model ----
(***************************************************************************)
(* A model of quickswitch-i3.rs (src/src/main.rs): the tokenizer of the    *)
(* picker invocation string, the flattening and filtering of the i3 tree,  *)
(* the label -> entity mapping, the exchange with the picker process and   *)
(* the command sent to the window manager.                                 *)
(*                                                                         *)
(* Strings are TLA+ strings (TLC gives them Len, \o, Head, Tail, SubSeq).  *)
(* Option<T> is a sequence of length at most one.                          *)
(***************************************************************************)
EXTENDS Integers, Sequences, FiniteSets, TLC

VARIABLES
  \* ---- one run of main ----
  workspace,      \* matches.is_present("workspace")
  move,           \* matches.is_present("move")
  dmenu_command,  \* matches.value_of("dmenu").unwrap_or(DEFAULT_DMENU_COMMAND)
  pc,             \* position of main
  tree,           \* Option: the reply of conn.get_tree(), its .nodes
  windows,        \* the Vec<Window> of get_windows_names
  mapping,        \* HashMap<String, Box<Selectable>>, a function label -> entity
  options,        \* the candidate block written to the picker
  str_result,     \* Option: the String exec_dmenu returned
  failure,        \* which step of exec_dmenu (or which query) failed, "" if none
  commands,       \* the texts given to connection.command, in order
  \* ---- one call of split_exec_args ----
  command,        \* the argument
  tok_result,     \* Option: what the call produced
  \* ---- the pipes between exec_dmenu and the picker process ----
  pp,             \* position of exec_dmenu: write_all, read_to_string, returned
  toWrite,        \* bytes of the candidate block not yet written
  inCap,          \* capacity of the pipe to the picker's input
  inPipe,         \* bytes in it
  inClosed,       \* the parent dropped its ChildStdin
  outCap,         \* capacity of the pipe from the picker's output
  outPipe,        \* bytes in it
  outClosed,      \* the picker closed its output
  pk,             \* the picker: idle, reading, writing, exited
  eofSeen,        \* the picker read end-of-stream on its input
  outLeft         \* bytes of output the picker has still to write

mainVars == <<workspace, move, dmenu_command, pc, tree, windows, mapping,
              options, str_result, failure, commands>>
tokVars  == <<command, tok_result>>
pipeVars == <<pp, toWrite, inCap, inPipe, inClosed, outCap, outPipe,
              outClosed, pk, eofSeen, outLeft>>
vars == <<mainVars, tokVars, pipeVars>>

None == <<>>
Some(x) == <<x>>

\* ------------------------------------------------------------------ bounds
MaxNodes == 2        \* nodes of a scene graph
MaxWorkspaces == 2   \* workspaces of a reply
MaxCmdLen == 4       \* characters of an invocation string
MaxCap == 2          \* capacity of a pipe
MaxBlock == 3        \* bytes of a candidate block
MaxOut == 3          \* bytes of a picker's output

\* --------------------------------------------------------------- constants
IGNORE_WINDOW_NAME == {"__i3_scratch"}
IGNORE_WINDOW_CLASS == {"i3bar"}
DEFAULT_DMENU_COMMAND == "dmenu -b -i -l 20"
LabelMargin == 5

\* ------------------------------------------------------------ the entities
Window(id, name, class_name) ==
  [kind |-> "Window", id |-> id, name |-> name, class_name |-> class_name]

Workspace(name) == [kind |-> "Workspace", name |-> name]

\* (mutation) the container id criterion instead of the X11 window id one
Window_to_select_string_con_id(w) == "[con_id=\"" \o ToString(w.id) \o "\"]"

Window_to_select_string(w) == "[id=\"" \o ToString(w.id) \o "\"]"

Workspace_to_select_string(w) == w.name

to_select_string(e) ==
  IF e.kind = "Window" THEN Window_to_select_string(e)
  ELSE Workspace_to_select_string(e)

unwrap_or(opt, default) == IF opt = None THEN default ELSE opt[1]

RECURSIVE Spaces(_)
Spaces(n) == IF n <= 0 THEN "" ELSE " " \o Spaces(n - 1)

\* format!("{class: <0$}{name}", padding, ...): class left-justified in a field
\* of at least `padding` characters, then the name.
pad_format(w, padding) ==
  LET class == unwrap_or(w.class_name, "")
  IN  class \o Spaces(padding - Len(class)) \o w.name

RECURSIVE SeqMax(_)
SeqMax(s) ==
  IF Len(s) = 1 THEN s[1]
  ELSE LET m == SeqMax(Tail(s)) IN IF s[1] >= m THEN s[1] ELSE m

\* (mutation) unwrap_or(0) in place of unwrap()
max_class_name_size_or_zero(ws) ==
  IF ws = <<>> THEN Some(0)
  ELSE Some(SeqMax([i \in 1..Len(ws) |->
                      IF ws[i].class_name = None THEN 0
                      ELSE Len(ws[i].class_name[1])]))

\* .map(|w| class length or 0).max(): None over no window. main unwraps it.
max_class_name_size(ws) ==
  IF ws = <<>> THEN None
  ELSE Some(SeqMax([i \in 1..Len(ws) |->
                      IF ws[i].class_name = None THEN 0
                      ELSE Len(ws[i].class_name[1])]))

\* ------------------------------------------------------------ the tokenizer
PanicResult == [status |-> "panic", program |-> "", args |-> <<>>]

\* The while loop of split_exec_args over the characters left in the iterator.
\* mc is matching_char, an Option<char>. It returns args: buf is a local that
\* is dropped when the characters run out.
RECURSIVE split_loop(_, _, _, _, _)
split_loop(rest, args, buf, skip, mc) ==
  IF rest = "" THEN args
  ELSE
    LET ch == Head(rest)
        tl == Tail(rest)
    IN  IF skip THEN split_loop(tl, args, buf, FALSE, mc)
        ELSE IF mc # None THEN
          IF ch \in {"\"", "'"} /\ mc[1] = ch
          THEN split_loop(tl, Append(args, buf), "", FALSE, None)
          ELSE split_loop(tl, args, buf \o ch, FALSE, mc)
        ELSE
          CASE ch = " " -> split_loop(tl, Append(args, buf), "", FALSE, None)
            [] ch \in {"\"", "'"} -> split_loop(tl, args, buf, FALSE, Some(ch))
            [] ch = "\\" -> split_loop(tl, args, buf, TRUE, None)
            [] OTHER -> split_loop(tl, args, buf \o ch, FALSE, None)

\* args.remove(0) panics on an empty vector.
split_exec_args(cmd) ==
  LET args == split_loop(cmd, <<>>, "", FALSE, None)
  IN  IF args = <<>> THEN PanicResult
      ELSE [status |-> "ok", program |-> Head(args), args |-> Tail(args)]

\* ---------------------------------------------------------- the scene graph
\* reply::Node, the fields the program reads.
Node(window, name, class_name, nodes) ==
  [window |-> window, name |-> name, class_name |-> class_name, nodes |-> nodes]

\* (mutation) a container is emitted along with its descendants
RECURSIVE flatten_nodes_with_containers(_)
flatten_nodes_with_containers(nodes) ==
  IF nodes = <<>> THEN <<>>
  ELSE LET n == Head(nodes)
       IN  <<n>> \o flatten_nodes_with_containers(n.nodes)
           \o flatten_nodes_with_containers(Tail(nodes))

RECURSIVE flatten_nodes(_)
flatten_nodes(nodes) ==
  IF nodes = <<>> THEN <<>>
  ELSE LET n == Head(nodes)
       IN  (IF n.nodes # <<>> THEN flatten_nodes(n.nodes) ELSE <<n>>)
           \o flatten_nodes(Tail(nodes))

filter_node(node) ==
  /\ node.window # None
  /\ IF node.name # None THEN node.name[1] \notin IGNORE_WINDOW_NAME ELSE FALSE
  /\ IF node.class_name # None THEN node.class_name[1] \notin IGNORE_WINDOW_CLASS
     ELSE TRUE

\* The flat_map of get_windows_names over the filtered nodes.
RECURSIVE project_windows(_)
project_windows(ns) ==
  IF ns = <<>> THEN <<>>
  ELSE LET m == Head(ns)
       IN  (IF m.name # None
            THEN <<Window(m.window[1], m.name[1], m.class_name)>>
            ELSE <<>>)
           \o project_windows(Tail(ns))

get_windows_names(nodes) ==
  project_windows(SelectSeq(flatten_nodes(nodes), filter_node))

\* ------------------------------------------------------- the label mapping
insert(m, k, v) == [x \in DOMAIN m \cup {k} |-> IF x = k THEN v ELSE m[x]]

\* HashMap::insert of each <<key, value>> in turn: a later key replaces an
\* earlier equal one.
RECURSIVE insert_all(_, _)
insert_all(m, entries) ==
  IF entries = <<>> THEN m
  ELSE insert_all(insert(m, Head(entries)[1], Head(entries)[2]), Tail(entries))

EmptyMap == [x \in {} |-> x]

workspace_mapping(wss) ==
  insert_all(EmptyMap, [i \in 1..Len(wss) |-> <<wss[i], Workspace(wss[i])>>])

window_mapping(ws, max_cname_size) ==
  insert_all(EmptyMap,
             [i \in 1..Len(ws) |-> <<pad_format(ws[i], max_cname_size), ws[i]>>])

RECURSIVE join(_, _)
join(lines, sep) ==
  IF lines = <<>> THEN ""
  ELSE IF Len(lines) = 1 THEN lines[1]
  ELSE lines[1] \o sep \o join(Tail(lines), sep)

\* mapping.keys() iterates in an order the hash map chooses.
KeyOrders(m) ==
  {s \in [1..Cardinality(DOMAIN m) -> DOMAIN m] :
     \A i, j \in DOMAIN s : i # j => s[i] # s[j]}

\* ------------------------------------------------------------ the dispatcher
WhiteSpace == {" ", "\n", "\t", "\r"}

RECURSIVE trim_start(_)
trim_start(s) ==
  IF s # "" /\ Head(s) \in WhiteSpace THEN trim_start(Tail(s)) ELSE s

RECURSIVE trim_end(_)
trim_end(s) ==
  IF s # "" /\ SubSeq(s, Len(s), Len(s)) \in WhiteSpace
  THEN trim_end(SubSeq(s, 1, Len(s) - 1)) ELSE s

trim(s) == trim_end(trim_start(s))

\* (mutation) no fall-back to the typed text
workspace_target_no_fallback(m, trimmed) ==
  IF trimmed \in DOMAIN m THEN to_select_string(m[trimmed]) ELSE ""

\* lines 233-237
workspace_target(m, trimmed) ==
  IF trimmed \in DOMAIN m THEN to_select_string(m[trimmed]) ELSE trimmed

workspace_command(res) == "workspace " \o res

move_command(e) == to_select_string(e) \o " move workspace current"

\* ----------------------------------------------------------------- inputs
\* (window, name, class_name) of the nodes of a reply.
NodeAttrs ==
  { <<Some(5), Some("Inbox"), Some("Mail")>>,
    <<Some(9), Some("Editor"), Some("Code")>>,
    <<Some(7), Some("Inbox"), Some("Mail")>>,
    <<None, Some("Inbox"), Some("Mail")>>,
    <<Some(3), None, Some("Mail")>>,
    <<Some(4), Some("__i3_scratch"), None>>,
    <<Some(6), Some("bar"), Some("i3bar")>>,
    <<Some(8), Some("Inbox"), None>> }

\* The ordered forests of exactly n nodes.
RECURSIVE ForestsOfSize(_)
ForestsOfSize(n) ==
  IF n = 0 THEN {<<>>}
  ELSE UNION { { <<Node(a[1], a[2], a[3], kids)>> \o rest :
                   a \in NodeAttrs,
                   kids \in ForestsOfSize(k),
                   rest \in ForestsOfSize(n - 1 - k) } : k \in 0..(n - 1) }

\* A container of two windows and one leaf without a window id.
ExampleTree ==
  << Node(None, Some("1"), None,
          << Node(Some(5), Some("Inbox"), Some("Mail"), <<>>),
             Node(Some(9), Some("Editor"), Some("Code"), <<>>),
             Node(None, Some("split"), None, <<>>) >>) >>

Trees == UNION {ForestsOfSize(n) : n \in 0..MaxNodes} \cup {ExampleTree}

WorkspaceNames == {"1", "2:web", "mail"}

\* The workspace names of a reply: pairwise distinct.
WorkspaceLists ==
  UNION { {s \in [1..n -> WorkspaceNames] :
             \A i, j \in 1..n : i # j => s[i] # s[j]} : n \in 0..MaxWorkspaces }

DmenuCommands == {DEFAULT_DMENU_COMMAND, "dmenu"}

\* What a picker may write: a label or typed text, with or without the
\* surrounding white space.
PickerOutputs(labels) ==
  { pre \o l \o post :
      pre \in {"", " "}, l \in labels \cup {"", "zz"}, post \in {"", "\n"} }

Prefixes(s) == {SubSeq(s, 1, k) : k \in 0..Len(s)}

\* ------------------------------------------------------------- one run: main
IdleTok == command = "" /\ tok_result = None
IdlePipe ==
  /\ pp = "idle" /\ toWrite = 0 /\ inCap = 0 /\ inPipe = 0 /\ inClosed = FALSE
  /\ outCap = 0 /\ outPipe = 0 /\ outClosed = FALSE
  /\ pk = "idle" /\ eofSeen = FALSE /\ outLeft = 0
IdleMain ==
  /\ workspace = FALSE /\ move = FALSE /\ dmenu_command = ""
  /\ pc = "idle" /\ tree = None /\ windows = <<>> /\ mapping = EmptyMap
  /\ options = "" /\ str_result = None /\ failure = "" /\ commands = <<>>

Init ==
  /\ workspace \in BOOLEAN
  /\ move \in BOOLEAN
  /\ dmenu_command \in DmenuCommands
  /\ pc = "start"
  /\ tree = None
  /\ windows = <<>>
  /\ mapping = EmptyMap
  /\ options = ""
  /\ str_result = None
  /\ failure = ""
  /\ commands = <<>>
  /\ IdleTok
  /\ IdlePipe

\* lines 208, 212, 118: connect, get_workspaces and get_tree are unwrapped.
QueryFails ==
  /\ pc = "start"
  /\ pc' = "panicked"
  /\ failure' = "query"
  /\ UNCHANGED <<workspace, move, dmenu_command, tree, windows, mapping,
                 options, str_result, commands, tokVars, pipeVars>>

\* lines 211-217
MapWorkspaces ==
  /\ pc = "start"
  /\ workspace
  /\ \E wss \in WorkspaceLists : mapping' = workspace_mapping(wss)
  /\ pc' = "mapped"
  /\ UNCHANGED <<workspace, move, dmenu_command, tree, windows, options,
                 str_result, failure, commands, tokVars, pipeVars>>

\* lines 219-225
MapWindows ==
  /\ pc = "start"
  /\ ~workspace /\ move
  /\ \E t \in Trees :
       LET ws == get_windows_names(t)
           m == max_class_name_size(ws)
       IN  /\ tree' = Some(t)
           /\ windows' = ws
           /\ IF m = None
              THEN /\ pc' = "panicked"
                   /\ failure' = "max"
                   /\ mapping' = mapping
              ELSE /\ pc' = "mapped"
                   /\ failure' = failure
                   /\ mapping' = window_mapping(ws, m[1] + LabelMargin)
  /\ UNCHANGED <<workspace, move, dmenu_command, options, str_result,
                 commands, tokVars, pipeVars>>

\* Neither flag: the mapping stays empty.
MapNothing ==
  /\ pc = "start"
  /\ ~workspace /\ ~move
  /\ pc' = "mapped"
  /\ UNCHANGED <<workspace, move, dmenu_command, tree, windows, mapping,
                 options, str_result, failure, commands, tokVars, pipeVars>>

\* lines 229, 162-169: the candidate block, the tokenizer and the spawn.
SpawnPicker ==
  /\ pc = "mapped"
  /\ \E order \in KeyOrders(mapping) : options' = join(order, "\n")
  /\ IF split_exec_args(dmenu_command).status = "panic"
     THEN pc' = "panicked" /\ failure' = "split"
     ELSE pc' = "spawned" /\ failure' = failure
  /\ UNCHANGED <<workspace, move, dmenu_command, tree, windows, mapping,
                 str_result, commands, tokVars, pipeVars>>

\* lines 164-169: spawn() is unwrapped.
SpawnFails ==
  /\ pc = "mapped"
  /\ split_exec_args(dmenu_command).status = "ok"
  /\ \E order \in KeyOrders(mapping) : options' = join(order, "\n")
  /\ pc' = "panicked"
  /\ failure' = "spawn"
  /\ UNCHANGED <<workspace, move, dmenu_command, tree, windows, mapping,
                 str_result, commands, tokVars, pipeVars>>

\* lines 171-174
WriteOptions ==
  /\ pc = "spawned"
  /\ pc' = "written"
  /\ UNCHANGED <<workspace, move, dmenu_command, tree, windows, mapping,
                 options, str_result, failure, commands, tokVars, pipeVars>>

\* line 172: a write error panics.
WriteFails ==
  /\ pc = "spawned"
  /\ pc' = "panicked"
  /\ failure' = "write"
  /\ UNCHANGED <<workspace, move, dmenu_command, tree, windows, mapping,
                 options, str_result, commands, tokVars, pipeVars>>

\* lines 176-180
ReadOutput ==
  /\ pc = "written"
  /\ \E o \in PickerOutputs(DOMAIN mapping) : str_result' = Some(o)
  /\ pc' = "read"
  /\ UNCHANGED <<workspace, move, dmenu_command, tree, windows, mapping,
                 options, failure, commands, tokVars, pipeVars>>

\* lines 177-180: the result of read_to_string is matched by `_ => ()` and the
\* string, holding what was read before the error, is returned.
ReadFails ==
  /\ pc = "written"
  /\ \E o \in PickerOutputs(DOMAIN mapping) :
       \E part \in Prefixes(o) : str_result' = Some(part)
  /\ failure' = "read"
  /\ pc' = "read"
  /\ UNCHANGED <<workspace, move, dmenu_command, tree, windows, mapping,
                 options, commands, tokVars, pipeVars>>

\* lines 232-238
DispatchWorkspace ==
  /\ pc = "read"
  /\ workspace
  /\ LET trimmed == trim(str_result[1])
         res == workspace_target(mapping, trimmed)
     IN  commands' = Append(commands, workspace_command(res))
  /\ pc' = "done"
  /\ UNCHANGED <<workspace, move, dmenu_command, tree, windows, mapping,
                 options, str_result, failure, tokVars, pipeVars>>

\* lines 240-245
DispatchMove ==
  /\ pc = "read"
  /\ ~workspace /\ move
  /\ LET trimmed == trim(str_result[1])
     IN  IF trimmed \in DOMAIN mapping
         THEN commands' = Append(commands, move_command(mapping[trimmed]))
         ELSE commands' = commands
  /\ pc' = "done"
  /\ UNCHANGED <<workspace, move, dmenu_command, tree, windows, mapping,
                 options, str_result, failure, tokVars, pipeVars>>

\* Neither flag: main ends.
DispatchNothing ==
  /\ pc = "read"
  /\ ~workspace /\ ~move
  /\ pc' = "done"
  /\ UNCHANGED <<workspace, move, dmenu_command, tree, windows, mapping,
                 options, str_result, failure, commands, tokVars, pipeVars>>

Next ==
  \/ QueryFails
  \/ MapWorkspaces
  \/ MapWindows
  \/ MapNothing
  \/ SpawnPicker
  \/ SpawnFails
  \/ WriteOptions
  \/ WriteFails
  \/ ReadOutput
  \/ ReadFails
  \/ DispatchWorkspace
  \/ DispatchMove
  \/ DispatchNothing

Spec == Init /\ [][Next]_vars

\* ===================================================== claims about one run
MoveMode == move /\ ~workspace

AfterSpawn == pc \in {"spawned", "written", "read", "done"}

\* C1: in move mode, once the picker has returned o, a command is sent if and
\* only if trim(o) is a label of the mapping; it is then the only command, its
\* text is [id="<id>"] move workspace current, and <id> is the identifier of
\* the candidate window the mapping stores under that label. No command is
\* sent before, nor for any other output.
C1_MoveCommand ==
  MoveMode =>
    /\ pc # "done" => commands = <<>>
    /\ pc = "done" =>
         LET chosen == trim(str_result[1])
         IN  IF \E l \in DOMAIN mapping : l = chosen
             THEN /\ commands = << "[id=\"" \o ToString(mapping[chosen].id)
                                   \o "\"] move workspace current" >>
                  /\ \E i \in 1..Len(windows) : windows[i] = mapping[chosen]
             ELSE commands = <<>>

C1_Witness ==
  /\ MoveMode
  /\ pc = "done"
  /\ windows = << Window(5, "Inbox", Some("Mail")),
                  Window(9, "Editor", Some("Code")) >>
  /\ trim(str_result[1]) = "Code     Editor"
  /\ commands = << "[id=\"9\"] move workspace current" >>

\* C2: in workspace mode exactly one command is sent for every picker output
\* o, when the run dispatches: workspace <X>, X the name of the workspace whose
\* label is trim(o) if the mapping has one and trim(o) itself otherwise. The
\* scene graph is never queried and the mapping holds no window.
C2_WorkspaceCommand ==
  workspace =>
    /\ tree = None
    /\ windows = <<>>
    /\ \A l \in DOMAIN mapping : mapping[l].kind = "Workspace"
    /\ pc # "done" => commands = <<>>
    /\ pc = "done" =>
         LET typed == trim(str_result[1])
         IN  commands =
               << "workspace " \o
                  (IF \E l \in DOMAIN mapping : l = typed
                   THEN mapping[typed].name ELSE typed) >>

C2_Witness ==
  /\ workspace
  /\ pc = "done"
  /\ DOMAIN mapping = {"1", "mail"}
  /\ str_result = Some("zz\n")
  /\ commands = << "workspace zz" >>

\* All the nodes of a forest, parents before children, left to right.
RECURSIVE C5_DepthFirst(_)
C5_DepthFirst(nodes) ==
  IF nodes = <<>> THEN <<>>
  ELSE <<Head(nodes)>> \o C5_DepthFirst(Head(nodes).nodes)
       \o C5_DepthFirst(Tail(nodes))

C5_Candidate(n) ==
  /\ n.nodes = <<>>
  /\ n.window # None
  /\ n.name # None /\ n.name[1] # "__i3_scratch"
  /\ n.class_name = None \/ n.class_name[1] # "i3bar"

\* C5: the window list is, in depth-first left-to-right order, the nodes with
\* no child, a window identifier, a name other than __i3_scratch and no class
\* or a class other than i3bar, each as one Window of its id, name and class.
C5_CandidateWindows ==
  tree # None =>
    LET cand == SelectSeq(C5_DepthFirst(tree[1]), C5_Candidate)
    IN  /\ Len(windows) = Len(cand)
        /\ \A i \in 1..Len(cand) :
             /\ windows[i].id = cand[i].window[1]
             /\ windows[i].name = cand[i].name[1]
             /\ windows[i].class_name = cand[i].class_name

C5_Witness ==
  /\ tree = Some(ExampleTree)
  /\ windows = << Window(5, "Inbox", Some("Mail")),
                  Window(9, "Editor", Some("Code")) >>

RECURSIVE C6_Lines(_)
C6_Lines(s) ==
  IF s = "" THEN 1
  ELSE (IF Head(s) = "\n" THEN 1 ELSE 0) + C6_Lines(Tail(s))

C6_DistinctIds ==
  \A i, j \in 1..Len(windows) : i # j => windows[i].id # windows[j].id

C6_Label(i) ==
  pad_format(windows[i], max_class_name_size(windows)[1] + LabelMargin)

\* C6: in move mode, for candidate windows with pairwise distinct identifiers,
\* the labels are pairwise distinct: the mapping holds one entry per window,
\* each window under its own label, and the picker is offered one line per
\* window.
C6_LabelsUnique ==
  (MoveMode /\ C6_DistinctIds /\ (pc = "mapped" \/ AfterSpawn)) =>
    /\ \A i, j \in 1..Len(windows) : i # j => C6_Label(i) # C6_Label(j)
    /\ Cardinality(DOMAIN mapping) = Len(windows)
    /\ \A i \in 1..Len(windows) : mapping[C6_Label(i)] = windows[i]
    /\ AfterSpawn => C6_Lines(options) = Len(windows)

\* C8: in workspace or move mode, once spawning the picker, writing to it or
\* reading from it has failed, the run has aborted and no command is ever sent.
C8_PickerFailureAborts ==
  ((workspace \/ move) /\ failure \in {"spawn", "write", "read"}) =>
    /\ pc = "panicked"
    /\ commands = <<>>

\* C10: in move mode the picker is spawned only for a non-empty window list;
\* an empty one aborts the run at the maximum of the class-name lengths,
\* before any spawn and with no command sent.
C10_EmptyListAborts ==
  MoveMode =>
    /\ (tree # None /\ windows = <<>>) =>
         /\ pc = "panicked"
         /\ failure = "max"
         /\ commands = <<>>
    /\ (AfterSpawn \/ failure \in {"split", "spawn", "write", "read"}) =>
         windows # <<>>

C10_Witness ==
  /\ MoveMode
  /\ tree # None
  /\ tree[1] # <<>>
  /\ windows = <<>>
  /\ pc = "panicked"

\* ============================================== one call of split_exec_args
TokAlphabet == {"a", "b", " ", "\"", "'", "\\"}

RECURSIVE StringsUpTo(_)
StringsUpTo(n) ==
  IF n = 0 THEN {""}
  ELSE LET shorter == StringsUpTo(n - 1)
       IN  shorter \cup {s \o c : s \in shorter, c \in TokAlphabet}

\* A token of an invocation string: a plain word, or a span between two equal
\* quote characters.
C3_Token(text, quote) == [text |-> text, quote |-> quote]

C3_Tokens ==
  { C3_Token("a", ""), C3_Token("b", ""), C3_Token("a b", "\""),
    C3_Token("b", "'") }

C3_TokenLists ==
  [1..2 -> C3_Tokens]
  \cup { << C3_Token("foo", ""), C3_Token("bar baz", "\""), C3_Token("qux", "") >>,
         << C3_Token("dmenu", ""), C3_Token("-b", ""), C3_Token("-i", ""),
            C3_Token("-l", ""), C3_Token("20", "") >> }

\* The tokens written out, one unquoted space between two of them.
C3_Render(toks) ==
  join([i \in 1..Len(toks) |-> toks[i].quote \o toks[i].text \o toks[i].quote],
       " ")

TokExamples ==
  { "a\\ b c", "prog \"ab", "a 'b\"c' d" } \cup {C3_Render(t) : t \in C3_TokenLists}

TokInit ==
  /\ command \in StringsUpTo(MaxCmdLen) \cup TokExamples
  /\ tok_result = None
  /\ IdleMain
  /\ IdlePipe

\* lines 62-115
Tokenize ==
  /\ tok_result = None
  /\ tok_result' = Some(split_exec_args(command))
  /\ UNCHANGED <<command, mainVars, pipeVars>>

TokNext == Tokenize

TokSpec == TokInit /\ [][TokNext]_vars

TokOk(program, args) == [status |-> "ok", program |-> program, args |-> args]

\* C3: for tokens separated by single unquoted spaces, the first token is the
\* program and all the others, the last one included, are the arguments, in
\* order.
C3_AllTokensReturned ==
  \A toks \in C3_TokenLists :
    (tok_result # None /\ command = C3_Render(toks)) =>
      tok_result[1] = TokOk(toks[1].text,
                            [i \in 1..(Len(toks) - 1) |-> toks[i + 1].text])

\* C4: outside a quoted span the character after a backslash is appended to
\* the current token, whatever it is, and the backslash is not.
C4_EscapedCharacterKept ==
  tok_result # None =>
    /\ command = "a\\ b c" => tok_result[1] = TokOk("a b", <<"c">>)
    /\ \A w \in {"", "a"} : \A c \in TokAlphabet :
         command = w \o "\\" \o c \o " " =>
           /\ tok_result[1].status = "ok"
           /\ tok_result[1].program = w \o c

\* C7: when the input ends inside a quoted span no error is raised and the
\* token accumulated so far is the last token of the result.
C7_OpenQuoteTokenEmitted ==
  tok_result # None =>
    /\ command = "prog \"ab" => tok_result[1] = TokOk("prog", <<"ab">>)
    /\ \A q \in {"\"", "'"} : \A t \in {"", "a", "ab"} :
         command = "a " \o q \o t => tok_result[1] = TokOk("a", <<t>>)

\* ================================== the pipes between exec_dmenu and a picker
PipeInit ==
  /\ pp = "write"
  /\ toWrite \in 0..MaxBlock
  /\ inCap \in 1..MaxCap
  /\ inPipe = 0
  /\ inClosed = FALSE
  /\ outCap \in 1..MaxCap
  /\ outPipe = 0
  /\ outClosed = FALSE
  /\ pk = "idle"
  /\ eofSeen = FALSE
  /\ outLeft \in 0..MaxOut
  /\ IdleMain
  /\ IdleTok

\* line 171, write_all: a byte goes into the pipe when there is room.
ParentWrite ==
  /\ pp = "write"
  /\ toWrite > 0
  /\ inPipe < inCap
  /\ inPipe' = inPipe + 1
  /\ toWrite' = toWrite - 1
  /\ UNCHANGED <<inCap, inClosed, outCap, outPipe, outClosed, pk, eofSeen,
                 outLeft, pp, mainVars, tokVars>>

\* lines 171-174: write_all returned, the temporary ChildStdin is dropped.
ParentCloseStdin ==
  /\ pp = "write"
  /\ toWrite = 0
  /\ inClosed' = TRUE
  /\ pp' = "read"
  /\ UNCHANGED <<toWrite, inCap, inPipe, outCap, outPipe, outClosed, pk,
                 eofSeen, outLeft, mainVars, tokVars>>

\* line 177, read_to_string: a byte is taken from the pipe.
ParentRead ==
  /\ pp = "read"
  /\ outPipe > 0
  /\ outPipe' = outPipe - 1
  /\ UNCHANGED <<pp, toWrite, inCap, inPipe, inClosed, outCap, outClosed, pk,
                 eofSeen, outLeft, mainVars, tokVars>>

\* lines 177-180: end-of-stream, exec_dmenu returns.
ParentReadEof ==
  /\ pp = "read"
  /\ outPipe = 0
  /\ outClosed
  /\ pp' = "returned"
  /\ UNCHANGED <<toWrite, inCap, inPipe, inClosed, outCap, outPipe, outClosed,
                 pk, eofSeen, outLeft, mainVars, tokVars>>

\* The picker turns to its input, until it has seen end-of-stream.
PickerStartRead ==
  /\ pk = "idle"
  /\ ~eofSeen
  /\ pk' = "reading"
  /\ UNCHANGED <<pp, toWrite, inCap, inPipe, inClosed, outCap, outPipe,
                 outClosed, eofSeen, outLeft, mainVars, tokVars>>

PickerRead ==
  /\ pk = "reading"
  /\ inPipe > 0
  /\ inPipe' = inPipe - 1
  /\ pk' = "idle"
  /\ UNCHANGED <<pp, toWrite, inCap, inClosed, outCap, outPipe, outClosed,
                 eofSeen, outLeft, mainVars, tokVars>>

PickerReadEof ==
  /\ pk = "reading"
  /\ inPipe = 0
  /\ inClosed
  /\ eofSeen' = TRUE
  /\ pk' = "idle"
  /\ UNCHANGED <<pp, toWrite, inCap, inPipe, inClosed, outCap, outPipe,
                 outClosed, outLeft, mainVars, tokVars>>

\* The picker turns to its output, at any point of its reading.
PickerStartWrite ==
  /\ pk = "idle"
  /\ outLeft > 0
  /\ pk' = "writing"
  /\ UNCHANGED <<pp, toWrite, inCap, inPipe, inClosed, outCap, outPipe,
                 outClosed, eofSeen, outLeft, mainVars, tokVars>>

PickerWrite ==
  /\ pk = "writing"
  /\ outPipe < outCap
  /\ outPipe' = outPipe + 1
  /\ outLeft' = outLeft - 1
  /\ pk' = "idle"
  /\ UNCHANGED <<pp, toWrite, inCap, inPipe, inClosed, outCap, outClosed,
                 eofSeen, mainVars, tokVars>>

\* All read and all written: the picker closes its output and exits.
PickerExit ==
  /\ pk = "idle"
  /\ eofSeen
  /\ outLeft = 0
  /\ outClosed' = TRUE
  /\ pk' = "exited"
  /\ UNCHANGED <<pp, toWrite, inCap, inPipe, inClosed, outCap, outPipe,
                 eofSeen, outLeft, mainVars, tokVars>>

PipeNext ==
  \/ ParentWrite
  \/ ParentCloseStdin
  \/ ParentRead
  \/ ParentReadEof
  \/ PickerStartRead
  \/ PickerRead
  \/ PickerReadEof
  \/ PickerStartWrite
  \/ PickerWrite
  \/ PickerExit

PipeSpec == PipeInit /\ [][PipeNext]_vars

ParentBlockedWriting == pp = "write" /\ toWrite > 0 /\ inPipe = inCap

PickerBlockedWriting == pk = "writing" /\ outPipe = outCap

\* C9: the exchange never deadlocks: in no reachable state is the parent
\* blocked writing the picker's input while the picker is blocked writing its
\* output, and until exec_dmenu has returned some step can be taken.
C9_NoDeadlock ==
  /\ ~(ParentBlockedWriting /\ PickerBlockedWriting)
  /\ pp = "returned" \/ ENABLED PipeNext

====
